---- MODULE Spec2Model ----
(***************************************************************************)
(* Model of steam_sales.py: the price parser, the item extractor           *)
(* (extract_games_from_store_page), the sorter (sort_items_by_discount,    *)
(* display_sales) and the batch controller (get_all_discounted_games).     *)
(*                                                                         *)
(* Representation choices                                                  *)
(*  - An optional value (Python None / a missing element) is a sequence    *)
(*    of length 0 or 1.                                                    *)
(*  - Python floats are modelled as exact rationals [n, d].  IEEE rounding *)
(*    can move a truncated result by one unit (int(19.99*100) = 1998); the *)
(*    sign of a value and the place where a division by zero is raised are *)
(*    the same in both arithmetics.                                        *)
(*  - The text of a discount element is a sequence of characters; the text *)
(*    of a price element is a written amount (currency sign, thousands     *)
(*    group, units, cents) from which the numeric tokens the regular       *)
(*    expressions see are computed.                                        *)
(***************************************************************************)
EXTENDS Integers, Sequences, FiniteSets, TLC

VARIABLES
    \* ---- get_all_discounted_games ----
    max_pages, results_interval,      \* the arguments
    page, i, batch_start_page,        \* loop counters
    batch_items, all_items, unique_items, displayed_ids, new_batch_items,
    html_content, page_results,       \* locals of the inner loop body
    pc,                               \* position in get_all_discounted_games
    returned,                         \* the value returned (None while running)
    console,                          \* what the last batch report rendered
    fetched,                          \* history: page numbers passed to the fetcher
    extracted,                        \* history: the page_results of each extracted page
    stop_page,                        \* history: page of the terminal condition, 0 if none
    reported_new,                     \* history: ids counted as new at the batch reports
    listed_new,                       \* history: ids rendered in the new-games listings
    since,                            \* history: throttling performed since the last fetch
    gaps,                             \* history: per fetch, its batch and the throttling before it
    \* ---- one call of extract_games_from_store_page ----
    ex_html, ex_out, ex_trace, ex_pc,
    \* ---- one call of sort_items_by_discount / display_sales ----
    sort_in, sort_args, sort_out, sort_shown, sort_pc

ctl_vars == <<max_pages, results_interval, page, i, batch_start_page, batch_items,
              all_items, unique_items, displayed_ids, new_batch_items, html_content,
              page_results, pc, returned, console, fetched, extracted, stop_page,
              reported_new, listed_new, since, gaps>>
ex_vars == <<ex_html, ex_out, ex_trace, ex_pc>>
sort_vars == <<sort_in, sort_args, sort_out, sort_shown, sort_pc>>
vars == <<ctl_vars, ex_vars, sort_vars>>

-----------------------------------------------------------------------------
(* Bounds of the model *)

\* largest max_pages argument explored
MaxPages == 3
\* largest results_interval argument explored
MaxInterval == 3
\* longest list of candidate elements in one markup given to the extractor alone
MaxRows == 2
\* longest list given to the sorter alone
MaxItems == 3

-----------------------------------------------------------------------------
(* Optional values and sequences *)

None == <<>>
Some(x) == <<x>>
IsSome(o) == o # <<>>
The(o) == o[1]

Range(s) == {s[k] : k \in 1..Len(s)}

RECURSIVE SeqsUpTo(_, _)
\* all sequences over S of length 0..n
SeqsUpTo(S, n) ==
    IF n = 0 THEN {<<>>}
    ELSE LET shorter == SeqsUpTo(S, n - 1)
         IN  shorter \cup {Append(s, x) : s \in {t \in shorter : Len(t) = n - 1}, x \in S}

RECURSIVE Flatten(_)
Flatten(ss) == IF ss = <<>> THEN <<>> ELSE Head(ss) \o Flatten(Tail(ss))

-----------------------------------------------------------------------------
(* Rational arithmetic standing for Python's float arithmetic *)

Rat(n, d) == [n |-> n, d |-> d]
RInt(k) == Rat(k, 1)
RZero == RInt(0)
RIsZero(a) == a.n = 0
RPos(a) == a.n > 0
RLeqZero(a) == a.n <= 0
\* a * (1 - discount/100)
RTimesOneMinus(a, discount) ==
    IF discount <= 100 THEN Rat(a.n * (100 - discount), a.d * 100)
    ELSE Rat(-(a.n * (discount - 100)), a.d * 100)
\* 1 - discount/100 = 0: Python raises ZeroDivisionError
DivisorIsZero(discount) == discount = 100
\* a / (1 - discount/100), defined when the divisor is not zero
ROverOneMinus(a, discount) ==
    IF discount < 100 THEN Rat(a.n * 100, a.d * (100 - discount))
    ELSE Rat(-(a.n * 100), a.d * (discount - 100))
\* int(x): truncation toward zero
IntOf(a) == IF a.n >= 0 THEN a.n \div a.d ELSE -((-a.n) \div a.d)

-----------------------------------------------------------------------------
(* Text of price elements and the numeric tokens the regular expressions see *)

\* A written amount: [lira] th "." un [ "," cents ] [lira]  (th = -1: no thousands
\* group, cents = -1: no decimal part), or a word without digits, or empty text.
PriceText(lira, th, un, cents) ==
    [kind |-> "price", lira |-> lira, th |-> th, un |-> un, cents |-> cents]
WordText == [kind |-> "word", lira |-> "no", th |-> -1, un |-> 0, cents |-> -1]
EmptyText == [kind |-> "empty", lira |-> "no", th |-> -1, un |-> 0, cents |-> -1]

\* The amount a reader of the storefront sees, in minor units.
TrueAmount(t) ==
    IF t.kind # "price" THEN 0
    ELSE ((IF t.th >= 0 THEN t.th * 1000 ELSE 0) + t.un) * 100
         + (IF t.cents >= 0 THEN t.cents ELSE 0)

Token(pre, post, val) == [pre |-> pre, post |-> post, val |-> val]

\* The matches of \d+(?:[.,]\d+)? in the text, left to right; val is
\* float(match.replace(',', '.')).  "1.299,00" is matched as "1.299" and "00".
Tokens(t) ==
    IF t.kind # "price" THEN <<>>
    ELSE IF t.th >= 0
    THEN IF t.cents >= 0
         THEN << Token(t.lira = "pre", FALSE, Rat(t.th * 1000 + t.un, 1000)),
                 Token(FALSE, t.lira = "post", RInt(t.cents)) >>
         ELSE << Token(t.lira = "pre", t.lira = "post", Rat(t.th * 1000 + t.un, 1000)) >>
    ELSE IF t.cents >= 0
         THEN << Token(t.lira = "pre", t.lira = "post", Rat(t.un * 100 + t.cents, 100)) >>
         ELSE << Token(t.lira = "pre", t.lira = "post", RInt(t.un)) >>

\* float(price_str) * 100
TimesHundred(a) == Rat(a.n * 100, a.d)

extract_price_from_text(text) ==
    IF text.kind = "empty" THEN RZero
    ELSE LET matches == Tokens(text)
         IN  IF matches # <<>> THEN TimesHundred(matches[1].val) ELSE RZero

\* An element inside the price container: its role for the structured selectors
\* ("strike": span.discount_original_price, span.original_price or strike;
\*  "final": span.discount_final_price or .discount_price; "plain": neither).
Node(role, text) == [role |-> role, text |-> text]

\* the text of one node as a sequence of tokens and word separators
ItemsOf(tokens, kind) ==
    IF kind = "price" THEN [k \in 1..Len(tokens) |-> [word |-> FALSE, tok |-> tokens[k]]]
    ELSE IF kind = "word" THEN << [word |-> TRUE, tok |-> Token(FALSE, FALSE, RZero)] >>
    ELSE <<>>

\* price_container.text: the texts of the nodes in document order
RECURSIVE FullText(_)
FullText(nodes) ==
    IF nodes = <<>> THEN <<>>
    ELSE ItemsOf(Tokens(Head(nodes).text), Head(nodes).text.kind) \o FullText(Tail(nodes))

\* whether the k-th item of the text is a number with a currency sign in front,
\* its own or the trailing sign of the number before
LiraHit(full_text, k) ==
    /\ ~full_text[k].word
    /\ \/ full_text[k].tok.pre
       \/ /\ k > 1
          /\ ~full_text[k - 1].word
          /\ full_text[k - 1].tok.post

RECURSIVE LiraPricesFrom(_, _)
LiraPricesFrom(full_text, k) ==
    IF k > Len(full_text) THEN <<>>
    ELSE (IF LiraHit(full_text, k) THEN <<full_text[k].tok.val>> ELSE <<>>)
         \o LiraPricesFrom(full_text, k + 1)

\* re.findall(r'(lira)\s*(\d+(?:[.,]\d+)?)', full_text)
LiraPrices(full_text) == LiraPricesFrom(full_text, 1)

\* select_one: the first node of the container matching the selector
RECURSIVE FirstWithRole(_, _)
FirstWithRole(nodes, role) ==
    IF nodes = <<>> THEN None
    ELSE IF Head(nodes).role = role THEN Some(Head(nodes))
    ELSE FirstWithRole(Tail(nodes), role)

-----------------------------------------------------------------------------
(* A candidate element ("game") of the search page and its field extraction *)

\* str.isdigit over the path segments that occur in the model
DigitStrings == {"10", "20", "30", "40", "100"}
IsDigit(s) == s \in DigitStrings

Digits == {"0", "1", "2", "3", "4", "5", "6", "7", "8", "9"}
DigitVal(c) ==
    CASE c = "0" -> 0 [] c = "1" -> 1 [] c = "2" -> 2 [] c = "3" -> 3 [] c = "4" -> 4
      [] c = "5" -> 5 [] c = "6" -> 6 [] c = "7" -> 7 [] c = "8" -> 8 [] c = "9" -> 9

\* discount_text.replace('-', '').replace('%', '')
StripSigns(chars) == SelectSeq(chars, LAMBDA c : c \notin {"-", "%"})

\* int(s) raises ValueError unless s is a non-empty run of digits
IntParses(chars) == chars # <<>> /\ \A k \in 1..Len(chars) : chars[k] \in Digits
RECURSIVE IntValue(_)
IntValue(chars) ==
    IF chars = <<>> THEN 0
    ELSE IntValue(SubSeq(chars, 1, Len(chars) - 1)) * 10 + DigitVal(chars[Len(chars)])

\* str.strip() on a text given as chunks, " " being whitespace
RECURSIVE LStrip(_)
LStrip(t) == IF t # <<>> /\ Head(t) = " " THEN LStrip(Tail(t)) ELSE t
RECURSIVE RStrip(_)
RStrip(t) == IF t # <<>> /\ t[Len(t)] = " " THEN RStrip(SubSeq(t, 1, Len(t) - 1)) ELSE t
Strip(t) == RStrip(LStrip(t))

\* lines 181-196: data-ds-appid, then data-appid, then the href path segment
AppId(game) ==
    IF IsSome(game.ds_appid) /\ The(game.ds_appid) # "" THEN game.ds_appid
    ELSE IF IsSome(game.data_appid) /\ The(game.data_appid) # "" THEN game.data_appid
    ELSE IF game.href.app /\ game.href.seg # "" /\ IsDigit(game.href.seg)
         THEN Some(game.href.seg)
    ELSE None

UnknownGame == <<"Unknown Game">>
\* lines 199-204: the first name selector that finds an element
RECURSIVE NameFrom(_, _)
NameFrom(titles, k) ==
    IF k > Len(titles) THEN UnknownGame
    ELSE IF IsSome(titles[k]) THEN Strip(The(titles[k]))
    ELSE NameFrom(titles, k + 1)
GameName(game) == NameFrom(game.titles, 1)

\* lines 207-217: the first discount selector whose element's text parses (break);
\* an element whose text does not parse is passed over
RECURSIVE DiscountFrom(_, _)
DiscountFrom(discounts, k) ==
    IF k > Len(discounts) THEN 0
    ELSE IF IsSome(discounts[k]) /\ IntParses(StripSigns(The(discounts[k])))
         THEN IntValue(StripSigns(The(discounts[k])))
    ELSE DiscountFrom(discounts, k + 1)
DiscountPercent(game) == DiscountFrom(game.discounts, 1)

\* lines 228-233: the first price-container selector that finds an element
RECURSIVE ContainerFrom(_, _)
ContainerFrom(containers, k) ==
    IF k > Len(containers) THEN None
    ELSE IF IsSome(containers[k]) THEN containers[k]
    ELSE ContainerFrom(containers, k + 1)
PriceContainer(game) == ContainerFrom(game.containers, 1)

\* The prices being worked out for one candidate: the two amounts, the discount,
\* where each amount was last assigned from, and whether an exception escaped.
Prices(o, f, d, osrc, fsrc, exc) ==
    [o |-> o, f |-> f, d |-> d, osrc |-> osrc, fsrc |-> fsrc, exc |-> exc]

\* the text of the first node with the role, if the container and the node exist
RoleText(container, role) ==
    IF IsSome(container) /\ IsSome(FirstWithRole(The(container), role))
    THEN Some(The(FirstWithRole(The(container), role)).text)
    ELSE None

PriceOfText(text) == IF IsSome(text) THEN extract_price_from_text(The(text)) ELSE RZero
SourceOfText(text) == IF IsSome(text) THEN "structured" ELSE "none"

\* lines 224-244
StructuredFrom(strike, final, d) ==
    Prices(PriceOfText(strike), PriceOfText(final), d,
           SourceOfText(strike), SourceOfText(final), FALSE)
StructuredPrices(container, d) ==
    StructuredFrom(RoleText(container, "strike"), RoleText(container, "final"), d)

\* lines 253-266, prices being the currency-tagged numbers of the container text
TextFallbackWith(st, prices) ==
    IF Len(prices) >= 2
    THEN [st EXCEPT !.o = TimesHundred(prices[1]), !.osrc = "text",
                    !.f = TimesHundred(prices[2]), !.fsrc = "text"]
    ELSE IF Len(prices) = 1
    THEN IF st.d > 0
         THEN IF DivisorIsZero(st.d)
              \* ZeroDivisionError is not caught by line 265
              THEN [st EXCEPT !.f = TimesHundred(prices[1]), !.fsrc = "text", !.exc = TRUE]
              ELSE [st EXCEPT !.f = TimesHundred(prices[1]), !.fsrc = "text",
                              !.o = ROverOneMinus(TimesHundred(prices[1]), st.d),
                              !.osrc = "derived"]
         ELSE [st EXCEPT !.f = TimesHundred(prices[1]), !.fsrc = "text"]
    ELSE st

\* lines 248-266
TextFallback(st, container) ==
    IF IsSome(container) /\ (RIsZero(st.o) \/ RIsZero(st.f))
    THEN TextFallbackWith(st, LiraPrices(FullText(The(container))))
    ELSE st

ApiNames == { <<"Kingdom Come: Deliverance II">>, <<"Elden Ring">>, <<"Baldur's Gate 3">> }
ApiDiscountThreshold == 50

\* lines 276-282
ApiOverwrite(st, price_data) ==
    [st EXCEPT !.f = RInt(price_data.final), !.fsrc = "api",
               !.o = RInt(price_data.initial), !.osrc = "api",
               !.d = IF price_data.discount_percent > 0
                     THEN price_data.discount_percent ELSE @]

\* lines 269-284; details is what fetch_game_details returns for the app; an
\* exception before this stage has already left the iteration
ApiPrices(st, name, details) ==
    IF st.exc THEN st
    ELSE IF (RLeqZero(st.o) \/ RLeqZero(st.f))
            /\ (name \in ApiNames \/ st.d > ApiDiscountThreshold)
            /\ IsSome(details) /\ IsSome(The(details).price_overview)
    THEN ApiOverwrite(st, The(The(details).price_overview))
    ELSE st

\* lines 287-290
CalculateMissing(st) ==
    IF st.exc THEN st
    ELSE IF RPos(st.o) /\ RIsZero(st.f) /\ st.d > 0
    THEN [st EXCEPT !.f = RTimesOneMinus(st.o, st.d), !.fsrc = "derived"]
    ELSE IF RPos(st.f) /\ RIsZero(st.o) /\ st.d > 0
    THEN IF DivisorIsZero(st.d) THEN [st EXCEPT !.exc = TRUE]
         ELSE [st EXCEPT !.o = ROverOneMinus(st.f, st.d), !.osrc = "derived"]
    ELSE st

PlaceholderPrice == 999

\* lines 295-296
DefaultOriginal(st) ==
    IF ~st.exc /\ RLeqZero(st.o)
    THEN [st EXCEPT !.o = RInt(PlaceholderPrice), !.osrc = "placeholder"]
    ELSE st

\* lines 297-298
DefaultFinal(st) ==
    IF ~st.exc /\ RLeqZero(st.f)
    THEN [st EXCEPT !.f = RTimesOneMinus(st.o, st.d), !.fsrc = "derived"]
    ELSE st

\* lines 295-298
FinalDefaults(st) == DefaultFinal(DefaultOriginal(st))

\* the stages of lines 224-298 in order
ResolveIn(container, name, d, details) ==
    FinalDefaults(CalculateMissing(
        ApiPrices(TextFallback(StructuredPrices(container, d), container), name, details)))
ResolvePrices(game, name, d) == ResolveIn(PriceContainer(game), name, d, game.details)

Outcome(kind, rec, osrc, fsrc) == [kind |-> kind, rec |-> rec, osrc |-> osrc, fsrc |-> fsrc]

\* lines 293-309: the record appended, or the exception that skips the candidate
Emit(app_id, name, st) ==
    IF st.exc THEN Outcome("exception", None, st.osrc, st.fsrc)
    ELSE IF st.d > 0
    THEN Outcome("record",
                 Some([id |-> app_id, name |-> name, discount_percent |-> st.d,
                       original_price |-> IntOf(st.o), final_price |-> IntOf(st.f)]),
                 st.osrc, st.fsrc)
    ELSE Outcome("no_discount", None, st.osrc, st.fsrc)

\* lines 195-221, 223-309
ExtractWith(game, app_id, name, discount_percent) ==
    IF ~IsSome(app_id) THEN Outcome("no_id", None, "none", "none")
    ELSE IF discount_percent <= 0 THEN Outcome("no_discount", None, "none", "none")
    ELSE Emit(The(app_id), name, ResolvePrices(game, name, discount_percent))

\* lines 178-309: one iteration of the loop over game_rows
ExtractGame(game) == ExtractWith(game, AppId(game), GameName(game), DiscountPercent(game))

\* lines 169-174: the enclosing links of the discount badges, without repetition
RECURSIVE BadgeParents(_, _)
BadgeParents(parents, acc) ==
    IF parents = <<>> THEN acc
    ELSE BadgeParents(Tail(parents),
                      IF IsSome(Head(parents)) /\ The(Head(parents)) \notin Range(acc)
                      THEN Append(acc, The(Head(parents))) ELSE acc)

\* lines 154-174: the first layout strategy that finds an element
SelectGameRows(markup) ==
    IF markup.layouts[1] # <<>> THEN markup.layouts[1]
    ELSE IF markup.layouts[2] # <<>> THEN markup.layouts[2]
    ELSE IF markup.layouts[3] # <<>> THEN markup.layouts[3]
    ELSE IF markup.layouts[4] # <<>> THEN markup.layouts[4]
    ELSE BadgeParents(markup.layouts[5], <<>>)

ExtractRows(game_rows) == [k \in 1..Len(game_rows) |-> ExtractGame(game_rows[k])]

\* the candidates worked through even when the markup carries the site-error title
TraceOf_IgnoreSiteError(html) ==
    IF ~IsSome(html) \/ The(html).blank THEN <<>>
    ELSE ExtractRows(SelectGameRows(The(html)))

\* lines 136-143 return before any element is selected; else the outcome of every
\* candidate, in document order
TraceOf(html) ==
    IF ~IsSome(html) \/ The(html).blank \/ The(html).site_error THEN <<>>
    ELSE ExtractRows(SelectGameRows(The(html)))

RECURSIVE RecordsOf(_)
RecordsOf(trace) ==
    IF trace = <<>> THEN <<>>
    ELSE (IF Head(trace).kind = "record" THEN <<The(Head(trace).rec)>> ELSE <<>>)
         \o RecordsOf(Tail(trace))

\* lines 134-311
extract_games_from_store_page(html) == RecordsOf(TraceOf(html))

-----------------------------------------------------------------------------
(* sort_items_by_discount and display_sales *)

\* item.get("discount_percent", 0); an item is a record, or None (<<>>)
HasDiscount(item) == "discount_percent" \in DOMAIN item
ItemDiscount(item) == IF HasDiscount(item) THEN item.discount_percent ELSE 0

\* an insertion that puts x in front of the items of equal key: not stable
InsertByDiscount_BeforeEqual(sorted, x) ==
    LET ahead == Cardinality({k \in 1..Len(sorted) :
                                 ItemDiscount(sorted[k]) > ItemDiscount(x)})
    IN  SubSeq(sorted, 1, ahead) \o <<x>> \o SubSeq(sorted, ahead + 1, Len(sorted))

\* sorted(..., reverse=True) is stable: in a list in descending order of key, x
\* goes behind every item whose key is not smaller than its own
InsertByDiscount(sorted, x) ==
    LET ahead == Cardinality({k \in 1..Len(sorted) :
                                 ItemDiscount(sorted[k]) >= ItemDiscount(x)})
    IN  SubSeq(sorted, 1, ahead) \o <<x>> \o SubSeq(sorted, ahead + 1, Len(sorted))

\* the items inserted one after the other, from the first; the rest of the list
\* and the list built so far are bound to their values at every step
RECURSIVE StableSortDesc(_, _)
StableSortDesc(items, acc) ==
    CHOOSE result \in
        { IF rest = <<>> THEN built
          ELSE StableSortDesc(Tail(rest), InsertByDiscount(built, Head(rest))) :
            rest \in {items}, built \in {acc} } : TRUE

\* line 326
ValidItems(items) == SelectSeq(items, LAMBDA item : DOMAIN item # {} /\ HasDiscount(item))

\* lines 324-327
sort_items_by_discount(items) == StableSortDesc(ValidItems(items), <<>>)

\* lines 331-345: the list display_sales renders
display_sales(items, min_discount, max_items, show_all) ==
    IF items = <<>> THEN <<>>
    ELSE LET filtered_items ==
                 IF min_discount > 0
                 THEN SelectSeq(items, LAMBDA item : ItemDiscount(item) >= min_discount)
                 ELSE items
             sorted_items == sort_items_by_discount(filtered_items)
         IN  IF show_all \/ Len(sorted_items) <= max_items THEN sorted_items
             ELSE SubSeq(sorted_items, 1, max_items)

-----------------------------------------------------------------------------
(* get_all_discounted_games: the helpers of the batch boundary *)

\* the loop of lines 509-513 without line 512: no id is ever recorded as seen
DedupFrom_ForgetSeen(items, seen_ids, acc) ==
    SelectSeq(items, LAMBDA item : item.id # "" /\ item.id \notin seen_ids)

\* the loop of lines 509-513 keeping the last item of every id instead of the first
RECURSIVE DedupFrom_KeepLast(_, _, _)
DedupFrom_KeepLast(items, seen_ids, acc) ==
    IF items = <<>> THEN acc
    ELSE LET item_id == Head(items).id
         IN  IF item_id # "" /\ \A k \in 1..Len(Tail(items)) : Tail(items)[k].id # item_id
             THEN DedupFrom_KeepLast(Tail(items), seen_ids, Append(acc, Head(items)))
             ELSE DedupFrom_KeepLast(Tail(items), seen_ids, acc)

\* lines 507-513: the first item of every id, in order
RECURSIVE DedupFrom(_, _, _)
DedupFrom(items, seen_ids, acc) ==
    IF items = <<>> THEN acc
    ELSE LET item_id == Head(items).id
         IN  IF item_id # "" /\ item_id \notin seen_ids
             THEN DedupFrom(Tail(items), seen_ids \cup {item_id}, Append(acc, Head(items)))
             ELSE DedupFrom(Tail(items), seen_ids, acc)
Dedup(items) == DedupFrom(items, {}, <<>>)

\* the loop of lines 517-521 without line 521: no id is recorded as displayed
NewBatchFrom_NoMark(items, shown_ids, acc) ==
    [new |-> SelectSeq(items, LAMBDA item : item.id # "" /\ item.id \notin shown_ids),
     shown |-> shown_ids]

\* lines 516-521: the unique items whose id has not been displayed yet, and the
\* displayed ids after them
RECURSIVE NewBatchFrom(_, _, _)
NewBatchFrom(items, shown_ids, acc) ==
    IF items = <<>> THEN [new |-> acc, shown |-> shown_ids]
    ELSE LET item_id == Head(items).id
         IN  IF item_id # "" /\ item_id \notin shown_ids
             THEN NewBatchFrom(Tail(items), shown_ids \cup {item_id}, Append(acc, Head(items)))
             ELSE NewBatchFrom(Tail(items), shown_ids, acc)

\* `not html_content`: None or the empty string
NoMarkup(html) == ~IsSome(html) \/ The(html).blank

-----------------------------------------------------------------------------
(* Inputs: markup of search pages *)

Game(ds, da, href, titles, discounts, containers, details) ==
    [ds_appid |-> ds, data_appid |-> da, href |-> href, titles |-> titles,
     discounts |-> discounts, containers |-> containers, details |-> details]

NoHref == [app |-> FALSE, seg |-> ""]
Chars75 == <<"-", "7", "5", "%">>
Chars50 == <<"-", "5", "0", "%">>
Chars0 == <<"-", "0", "%">>
Chars1 == <<"-", "1", "%">>
Chars100 == <<"-", "1", "0", "0", "%">>
Chars150 == <<"-", "1", "5", "0", "%">>
CharsNA == <<"N", "/", "A">>

Lira(un, cents) == PriceText("pre", -1, un, cents)
PlainTitle == <<Some(<<"Some Game">>), None, None, None>>
NoTitle == <<None, None, None, None>>

\* a well-formed result row: data-ds-appid, a title, one discount badge and a
\* price container with the original and the final price element
Row(id, chars, orig, final) ==
    Game(Some(id), None, NoHref, PlainTitle, <<Some(chars), None, None>>,
         <<Some(<<Node("strike", Lira(orig, 0)), Node("final", Lira(final, 0))>>), None, None>>,
         None)

Markup(blank, site_error, layouts) ==
    [blank |-> blank, site_error |-> site_error, layouts |-> layouts]
InLayout(k, rows) == [j \in 1..5 |-> IF j = k THEN rows ELSE <<>>]
Page(rows) == Some(Markup(FALSE, FALSE, InLayout(1, rows)))

PageA == Page(<<Row("10", Chars75, 100, 25), Row("20", Chars50, 100, 50)>>)
\* found by the third layout strategy; repeats id 10 with other fields
PageB == Some(Markup(FALSE, FALSE,
                     InLayout(3, <<Row("10", Chars50, 80, 40), Row("30", Chars75, 40, 10)>>)))
\* the same id twice on one page
PageC == Page(<<Row("20", Chars75, 200, 50), Row("20", Chars50, 200, 100)>>)
\* one candidate, not discounted
PageZero == Page(<<Row("40", Chars0, 100, 100)>>)
\* no layout strategy finds anything
PageNoRows == Page(<<>>)
\* the site-error page, with result rows in it
PageError == Some(Markup(FALSE, TRUE, InLayout(1, <<Row("10", Chars75, 100, 25)>>)))
\* an empty response body
PageBlank == Some(Markup(TRUE, FALSE, InLayout(1, <<>>)))

\* a full page: more rows than one new-games listing shows (line 531: max_items=25),
\* the last row with the smallest discount
ManyIds ==
    <<"101", "102", "103", "104", "105", "106", "107", "108", "109", "110", "111", "112", "113",
     "114", "115", "116", "117", "118", "119", "120", "121", "122", "123", "124", "125", "126">>
PageMany ==
    Page([k \in 1..Len(ManyIds) |->
            IF k < Len(ManyIds) THEN Row(ManyIds[k], Chars75, 100, 25)
            ELSE Row(ManyIds[k], Chars50, 100, 50)])

\* what fetch_store_search_page can return: None on a request error, else the text
FetchResults ==
    {None, PageBlank, PageA, PageB, PageC, PageZero, PageNoRows, PageError, PageMany}

-----------------------------------------------------------------------------
(* get_all_discounted_games as a state machine *)

\* the ids of a list of records, in order
IdSeq(items) == [k \in 1..Len(items) |-> items[k].id]

NoConsole == [new_games |-> <<>>, top |-> <<>>]

ExtractIdle ==
    /\ ex_html = None /\ ex_out = <<>> /\ ex_trace = <<>> /\ ex_pc = "idle"
SortIdle ==
    /\ sort_in = <<>> /\ sort_args = [min_discount |-> 0, max_items |-> 0, show_all |-> FALSE]
    /\ sort_out = <<>> /\ sort_shown = <<>> /\ sort_pc = "idle"

\* lines 454-459, for the given arguments
Start(mp, ri) ==
    /\ max_pages = mp /\ results_interval = ri
    /\ all_items = <<>> /\ unique_items = <<>> /\ displayed_ids = {}
    /\ page = 1
    /\ i = 0 /\ batch_start_page = 0 /\ batch_items = <<>> /\ new_batch_items = <<>>
    /\ html_content = None /\ page_results = <<>>
    /\ returned = None /\ console = NoConsole
    /\ fetched = <<>> /\ extracted = <<>> /\ stop_page = 0
    /\ reported_new = <<>> /\ listed_new = <<>> /\ since = {} /\ gaps = <<>>

Init ==
    /\ \E mp \in 0..MaxPages, ri \in 0..MaxInterval : Start(mp, ri)
    /\ pc = "while"
    /\ ExtractIdle /\ SortIdle

\* a loop test that admits one page past max_pages
LoopCondition_OnePast == page <= max_pages + 1

\* line 460
LoopCondition == page <= max_pages

\* lines 460-465: the outer loop is entered
BatchStart ==
    /\ pc = "while" /\ LoopCondition
    /\ batch_start_page' = page
    /\ batch_items' = <<>>
    /\ i' = 0
    /\ pc' = "for"
    /\ UNCHANGED <<ex_vars, sort_vars, reported_new, listed_new, since, gaps>>
    /\ UNCHANGED <<max_pages, results_interval, page, all_items, unique_items,
                   displayed_ids, new_batch_items, html_content, page_results,
                   returned, console, fetched, extracted, stop_page>>

\* lines 460, 548: the outer loop is left and unique_items returned
Return ==
    /\ pc = "while" /\ ~LoopCondition
    /\ returned' = Some(unique_items)
    /\ pc' = "done"
    /\ UNCHANGED <<ex_vars, sort_vars, reported_new, listed_new, since, gaps>>
    /\ UNCHANGED <<max_pages, results_interval, page, i, batch_start_page, batch_items,
                   all_items, unique_items, displayed_ids, new_batch_items,
                   html_content, page_results, console, fetched, extracted, stop_page>>

\* lines 468-470: the head of the inner loop
ForTest ==
    /\ pc = "for"
    /\ pc' = IF i < results_interval /\ ~(page > max_pages) THEN "fetch" ELSE "dedup"
    /\ UNCHANGED <<ex_vars, sort_vars, reported_new, listed_new, since, gaps>>
    /\ UNCHANGED <<max_pages, results_interval, page, i, batch_start_page, batch_items,
                   all_items, unique_items, displayed_ids, new_batch_items,
                   html_content, page_results, returned, console, fetched, extracted,
                   stop_page>>

\* line 483 / 491 setting the counter to max_pages, which the loop test still admits
ExitPage_NotPastEnd == max_pages

\* the page counter after line 483 / 491
ExitPage == max_pages + 1

\* lines 479-484
Fetch ==
    /\ pc = "fetch"
    /\ \E result \in FetchResults :
         /\ html_content' = result
         /\ fetched' = Append(fetched, page)
         /\ IF NoMarkup(result)
            THEN /\ page' = ExitPage
                 /\ stop_page' = page
                 /\ pc' = "dedup"
            ELSE /\ pc' = "extract"
                 /\ UNCHANGED <<page, stop_page>>
    /\ gaps' = Append(gaps, [batch |-> batch_start_page, before |-> since])
    /\ since' = {}
    /\ UNCHANGED <<ex_vars, sort_vars, reported_new, listed_new>>
    /\ UNCHANGED <<max_pages, results_interval, i, batch_start_page, batch_items,
                   all_items, unique_items, displayed_ids, new_batch_items,
                   page_results, returned, console, extracted>>

\* line 486 on every markup the fetcher can return
ExtractedFrom == [html \in FetchResults |-> extract_games_from_store_page(html)]

\* lines 486-494
Extract ==
    /\ pc = "extract"
    /\ LET results == ExtractedFrom[html_content]
       IN  /\ page_results' = results
           /\ batch_items' = batch_items \o results
           /\ extracted' = Append(extracted, results)
           /\ IF results = <<>>
              THEN /\ page' = ExitPage
                   /\ stop_page' = page
                   /\ pc' = "dedup"
                   /\ UNCHANGED all_items
              ELSE /\ all_items' = all_items \o results
                   /\ pc' = "throttle"
                   /\ UNCHANGED <<page, stop_page>>
    /\ UNCHANGED <<ex_vars, sort_vars, reported_new, listed_new, since, gaps>>
    /\ UNCHANGED <<max_pages, results_interval, i, batch_start_page, unique_items,
                   displayed_ids, new_batch_items, html_content, returned, console,
                   fetched>>

\* line 501 without its test of the page counter
SleepDue_IgnoreLastPage == i < results_interval - 1

\* line 501
SleepDue == i < results_interval - 1 /\ page < max_pages

\* lines 501-502: the inter-request delay
Sleep ==
    /\ pc = "throttle" /\ SleepDue
    /\ pc' = "advance"
    /\ since' = since \cup {"delay"}
    /\ UNCHANGED <<ex_vars, sort_vars, reported_new, listed_new, gaps>>
    /\ UNCHANGED <<max_pages, results_interval, page, i, batch_start_page, batch_items,
                   all_items, unique_items, displayed_ids, new_batch_items,
                   html_content, page_results, returned, console, fetched, extracted,
                   stop_page>>

\* line 501: no delay after the last page of a batch or of the run
NoSleep ==
    /\ pc = "throttle" /\ ~SleepDue
    /\ pc' = "advance"
    /\ UNCHANGED <<ex_vars, sort_vars, reported_new, listed_new, since, gaps>>
    /\ UNCHANGED <<max_pages, results_interval, page, i, batch_start_page, batch_items,
                   all_items, unique_items, displayed_ids, new_batch_items,
                   html_content, page_results, returned, console, fetched, extracted,
                   stop_page>>

\* line 504 skipping a page
NextPageNumber_SkipOne(p) == p + 2

\* the page counter after line 504
NextPageNumber(p) == p + 1

\* line 504 and the step of the inner loop
NextPage ==
    /\ pc = "advance"
    /\ page' = NextPageNumber(page)
    /\ i' = i + 1
    /\ pc' = "for"
    /\ UNCHANGED <<ex_vars, sort_vars, reported_new, listed_new, since, gaps>>
    /\ UNCHANGED <<max_pages, results_interval, batch_start_page, batch_items,
                   all_items, unique_items, displayed_ids, new_batch_items,
                   html_content, page_results, returned, console, fetched, extracted,
                   stop_page>>

\* lines 507-513
RemoveDuplicates ==
    /\ pc = "dedup"
    /\ unique_items' = Dedup(all_items)
    /\ pc' = "new"
    /\ UNCHANGED <<ex_vars, sort_vars, reported_new, listed_new, since, gaps>>
    /\ UNCHANGED <<max_pages, results_interval, page, i, batch_start_page, batch_items,
                   all_items, displayed_ids, new_batch_items, html_content,
                   page_results, returned, console, fetched, extracted, stop_page>>

\* lines 516-521
NewGames ==
    /\ pc = "new"
    /\ LET r == NewBatchFrom(unique_items, displayed_ids, <<>>)
       IN  /\ new_batch_items' = r.new
           /\ displayed_ids' = r.shown
    /\ pc' = "report"
    /\ UNCHANGED <<ex_vars, sort_vars, reported_new, listed_new, since, gaps>>
    /\ UNCHANGED <<max_pages, results_interval, page, i, batch_start_page, batch_items,
                   all_items, unique_items, html_content, page_results, returned,
                   console, fetched, extracted, stop_page>>

\* lines 524-536
Report ==
    /\ pc = "report"
    /\ console' =
         IF new_batch_items # <<>>
         THEN [new_games |-> display_sales(new_batch_items, 0, 25, FALSE),
               top |-> display_sales(unique_items, 0, 10, FALSE)]
         ELSE [new_games |-> <<>>,
               top |-> display_sales(unique_items, 0, 25, FALSE)]
    /\ pc' = "pause"
    /\ reported_new' = reported_new \o IdSeq(new_batch_items)
    /\ listed_new' = listed_new \o IdSeq(console'.new_games)
    /\ since' = since \cup {"report"}
    /\ UNCHANGED <<ex_vars, sort_vars, gaps>>
    /\ UNCHANGED <<max_pages, results_interval, page, i, batch_start_page, batch_items,
                   all_items, unique_items, displayed_ids, new_batch_items,
                   html_content, page_results, returned, fetched, extracted, stop_page>>

\* lines 541-546: the pause between batches
Pause ==
    /\ pc = "pause"
    /\ pc' = "while"
    /\ since' = since \cup {"pause"}
    /\ UNCHANGED <<ex_vars, sort_vars, reported_new, listed_new, gaps>>
    /\ UNCHANGED <<max_pages, results_interval, page, i, batch_start_page, batch_items,
                   all_items, unique_items, displayed_ids, new_batch_items,
                   html_content, page_results, returned, console, fetched, extracted,
                   stop_page>>

Next ==
    \/ BatchStart \/ Return \/ ForTest \/ Fetch \/ Extract \/ Sleep \/ NoSleep
    \/ NextPage \/ RemoveDuplicates \/ NewGames \/ Report \/ Pause

Spec == Init /\ [][Next]_vars

\* The function runs on one thread: whenever a step is possible, one is taken.
FairSpec == Init /\ [][Next]_vars /\ WF_vars(Next)

-----------------------------------------------------------------------------
(* One call of extract_games_from_store_page on a markup of its own *)

\* written amounts: 100,00 and 25,00 with the sign in front, 100,00 with the sign
\* behind, 0,01 without a sign, 1.299,00 and 974,25 and 0,00 with the sign in front
PriceTexts ==
    { Lira(100, 0), Lira(25, 0), PriceText("post", -1, 100, 0), PriceText("no", -1, 0, 1),
      PriceText("pre", 1, 299, 0), Lira(974, 25), Lira(0, 0) }

\* the storefront never shows a final price above the original price
PricePairs == {p \in PriceTexts \X PriceTexts : TrueAmount(p[2]) <= TrueAmount(p[1])}

\* the content of a price container: both price elements, the original element
\* and bare text, bare text only, one price only, no price at all
ContainerNodes ==
    {<<Node("strike", p[1]), Node("final", p[2])>> : p \in PricePairs}
    \cup {<<Node("strike", p[1]), Node("plain", p[2])>> : p \in PricePairs}
    \cup {<<Node("plain", p[1]), Node("plain", p[2])>> : p \in PricePairs}
    \cup {<<Node(r, t)>> : r \in {"strike", "final", "plain"}, t \in PriceTexts}
    \cup { <<Node("plain", WordText)>>,
           <<Node("strike", Lira(100, 0)), Node("final", WordText)>>,
           <<Node("final", EmptyText)>> }

StdNodes == <<Node("strike", Lira(100, 0)), Node("final", Lira(25, 0))>>
StdContainers == <<Some(StdNodes), None, None>>
ContainerSlots ==
    { <<None, None, None>>, <<None, Some(StdNodes), None>>, <<None, None, Some(StdNodes)>> }
    \cup {<<Some(n), None, None>> : n \in ContainerNodes}

Overview(final, initial, discount) ==
    Some([price_overview |-> Some([final |-> final, initial |-> initial,
                                   discount_percent |-> discount])])
\* what fetch_game_details returns: None, data without price_overview, or data
\* with one (a missing key reads as 0)
DetailsSet ==
    { None, Some([price_overview |-> None]),
      Overview(2500, 10000, 75), Overview(0, 0, 0), Overview(2500, 10000, 150),
      Overview(5000, 0, 0), Overview(0, 10000, 100) }

EldenTitle == <<Some(<<" ", "Elden Ring", " ">>), None, None, None>>
\* '.title' is found whenever 'span.title' is, '.search_name' whenever the
\* combined selector is
TitleSets ==
    { NoTitle, PlainTitle, EldenTitle,
      <<Some(<<"Some Game">>), None, None, Some(<<"Some Game">>)>>,
      <<None, Some(<<"Some Game">>), Some(<<"Other">>), None>>,
      <<None, None, Some(<<"Some Game", " ">>), None>> }

DiscountOptions == {None, Some(Chars75), Some(Chars0), Some(CharsNA), Some(<<>>)}
\* '.discount_pct' is found whenever '.discount_block .discount_pct' is
DiscountTriples ==
    {t \in DiscountOptions \X DiscountOptions \X DiscountOptions :
        IsSome(t[2]) => IsSome(t[1])}

PriceSlice ==
    {Game(Some("100"), None, NoHref, t, <<Some(c), None, None>>, cs, det) :
        t \in {PlainTitle, EldenTitle},
        c \in {Chars1, Chars50, Chars75, Chars100, Chars150},
        cs \in ContainerSlots, det \in DetailsSet}
DiscountSlice ==
    {Game(Some("100"), None, NoHref, PlainTitle, t, StdContainers, None) :
        t \in DiscountTriples}
IdSlice ==
    {Game(ds, da, href, t, <<Some(Chars75), None, None>>, StdContainers, None) :
        ds \in {None, Some(""), Some("100")}, da \in {None, Some(""), Some("20")},
        href \in {NoHref, [app |-> TRUE, seg |-> "30"], [app |-> TRUE, seg |-> "sub"],
                  [app |-> TRUE, seg |-> ""]},
        t \in TitleSets}
RichGames == PriceSlice \cup DiscountSlice \cup IdSlice

\* rows in front of the candidate under study
FillerGames == {Row("10", Chars75, 100, 25), Row("40", Chars0, 100, 100)}

ExtractInputs ==
    {Page(prefix \o <<g>>) : prefix \in SeqsUpTo(FillerGames, MaxRows - 1), g \in RichGames}
    \cup FetchResults
    \cup {Some(Markup(FALSE, FALSE, InLayout(k, <<Row("10", Chars75, 100, 25)>>))) : k \in 2..4}
    \cup {Some(Markup(FALSE, FALSE,
               InLayout(5, <<Some(Row("10", Chars75, 100, 25)), None,
                             Some(Row("10", Chars75, 100, 25)),
                             Some(Row("20", Chars50, 100, 50))>>)))}

ControllerIdle == Start(0, 0) /\ pc = "idle"

ExtractInit ==
    /\ ex_html \in ExtractInputs
    /\ ex_out = <<>> /\ ex_trace = <<>> /\ ex_pc = "call"
    /\ ControllerIdle /\ SortIdle

\* lines 134-311
ExtractCall ==
    /\ ex_pc = "call"
    /\ ex_trace' = TraceOf(ex_html)
    /\ ex_out' = extract_games_from_store_page(ex_html)
    /\ ex_pc' = "returned"
    /\ UNCHANGED <<ex_html, ctl_vars, sort_vars>>

ExtractNext == ExtractCall

ExtractSpec == ExtractInit /\ [][ExtractNext]_vars

-----------------------------------------------------------------------------
(* One call of sort_items_by_discount and of display_sales on a list of its own *)

SortItem(id, discount) == [id |-> id, discount_percent |-> discount]
\* None, a record without discount_percent, and records with one
SortItems ==
    { None, [id |-> "10"] }
    \cup {SortItem(id, d) : id \in {"10", "20", "30"}, d \in {50, 75}}

SortInit ==
    /\ sort_in \in SeqsUpTo(SortItems, MaxItems)
    /\ sort_args \in [min_discount : {0, 75}, max_items : {1, 25}, show_all : BOOLEAN]
    /\ sort_out = <<>> /\ sort_shown = <<>> /\ sort_pc = "call"
    /\ ControllerIdle /\ ExtractIdle

\* lines 324-327
SortCall ==
    /\ sort_pc = "call"
    /\ sort_out' = sort_items_by_discount(sort_in)
    /\ sort_pc' = "sorted"
    /\ UNCHANGED <<sort_in, sort_args, sort_shown, ctl_vars, ex_vars>>

\* lines 329-345, for the lists of records its callers pass
DisplayCall ==
    /\ sort_pc = "sorted"
    /\ None \notin Range(sort_in)
    /\ sort_shown' = display_sales(sort_in, sort_args.min_discount, sort_args.max_items,
                                   sort_args.show_all)
    /\ sort_pc' = "shown"
    /\ UNCHANGED <<sort_in, sort_args, sort_out, ctl_vars, ex_vars>>

SortNext == SortCall \/ DisplayCall

SortSpec == SortInit /\ [][SortNext]_vars

-----------------------------------------------------------------------------
(* Notions the properties are stated in *)

IdsOf(items) == {items[k].id : k \in 1..Len(items)}

NoDupIds(items) ==
    \A j, k \in 1..Len(items) : j # k => items[j].id # items[k].id

\* the positions of s holding the first record of their id
FirstPositions(s) == {k \in 1..Len(s) : \A j \in 1..(k - 1) : s[j].id # s[k].id}
\* the m-th smallest element of a set of positions
NthOf(P, m) == CHOOSE k \in P : Cardinality({j \in P : j <= k}) = m
\* u is s restricted to the first record of every id, in the order of s
IsFirstOccurrenceFilter(u, s) ==
    /\ Len(u) = Cardinality(FirstPositions(s))
    /\ \A m \in 1..Len(u) : u[m] = s[NthOf(FirstPositions(s), m)]

IsPrefix(s, t) == Len(s) <= Len(t) /\ \A k \in 1..Len(s) : s[k] = t[k]

\* a batch boundary has been passed and no page extracted since
AfterBoundary == pc \in {"new", "report", "pause", "while", "done"}

-----------------------------------------------------------------------------
(* Properties of get_all_discounted_games *)

\* C1: the deduplicated list computed at every batch boundary, and the list
\* returned, hold no two records with the same id.
C1_UniqueIds ==
    /\ NoDupIds(unique_items)
    /\ IsSome(returned) => NoDupIds(The(returned))

\* a finished run whose pages repeated an id
C1_Witness ==
    /\ pc = "done" /\ IsSome(returned)
    /\ Len(The(returned)) >= 2
    /\ Len(all_items) > Len(The(returned))

\* C2: at every batch boundary and at return the deduplicated list is the
\* first-occurrence-by-id filter of the records of all pages extracted so far, in
\* page order: every extracted id is there with its earliest record; and a later
\* boundary only appends to the list of an earlier one.
C2_FirstSeenWins ==
    /\ [](AfterBoundary =>
            /\ IsFirstOccurrenceFilter(unique_items, Flatten(extracted))
            /\ IdsOf(unique_items) = IdsOf(Flatten(extracted)))
    /\ [](IsSome(returned) => The(returned) = unique_items)
    /\ [][IsPrefix(unique_items, unique_items')]_vars

\* a second boundary at which an id extracted on an earlier page came again with
\* other fields
C2_Witness ==
    /\ pc = "pause" /\ batch_start_page > 1
    /\ \E j, k \in 1..Len(all_items) :
         j < k /\ all_items[j].id = all_items[k].id /\ all_items[j] # all_items[k]
    /\ Len(unique_items) >= 3

\* C3: the k-th fetch of a run is for page k, there are at most max_pages fetches,
\* and a fetch is issued only when every page fetched before has been extracted.
C3_SequentialPages ==
    /\ \A k \in 1..Len(fetched) : fetched[k] = k
    /\ Len(fetched) <= max_pages
    /\ Len(extracted) <= Len(fetched) /\ Len(fetched) <= Len(extracted) + 1
    /\ pc = "fetch" => Len(extracted) = Len(fetched) /\ page = Len(fetched) + 1

\* a run that fetched three pages and extracted each
C3_Witness == pc = "done" /\ Len(fetched) = 3 /\ Len(extracted) = 3

\* C4: once the fetch of page p failed or page p yielded no record, no later page
\* is fetched, and the run returns the deduplicated records of pages 1..p-1.
C4_StopsAtTerminalPage ==
    stop_page # 0 =>
        /\ Len(fetched) = stop_page
        /\ \A k \in 1..Len(fetched) : fetched[k] <= stop_page
        /\ pc # "fetch" /\ pc # "extract"
        /\ IsSome(returned) =>
              IsFirstOccurrenceFilter(The(returned),
                                      Flatten(SubSeq(extracted, 1, stop_page - 1)))

\* page 3 of a batch of 3 was terminal and the run returned the records of pages 1-2
C4_Witness ==
    /\ pc = "done" /\ stop_page = 3 /\ results_interval = 3 /\ max_pages = 3
    /\ Len(The(returned)) >= 2

\* C5 as stated: every run, for every max_pages >= 0 and every batch size >= 0,
\* eventually reaches DONE and returns its result set.
C5_EventuallyDone == <>(pc = "done" /\ IsSome(returned))

\* C5 as amended: every run with a batch size of at least one page, and every run
\* with max_pages = 0, eventually reaches DONE and returns its result set.
C5_TerminatesWithPositiveInterval ==
    (results_interval >= 1 \/ max_pages = 0) => <>(pc = "done" /\ IsSome(returned))

\* a run over several batches of at least one page each that has returned
C5_Witness ==
    /\ pc = "done" /\ IsSome(returned)
    /\ results_interval >= 1 /\ results_interval < max_pages
    /\ Len(fetched) = max_pages

\* no value occurs twice in the sequence
NoRepeat(s) == \A j, k \in 1..Len(s) : j # k => s[j] # s[k]

\* a batch report has been made and no page extracted since
AfterReport == pc \in {"pause", "while", "done"}

C13_ThrottledBetweenFetches ==
    /\ \A k \in 2..Len(gaps) :
          gaps[k].before = IF gaps[k].batch = gaps[k - 1].batch
                           THEN {"delay"} ELSE {"report", "pause"}
    /\ "pause" \in since => "report" \in since
    /\ "delay" \in since =>
          /\ since = {"delay"}
          /\ pc \in {"advance", "for", "fetch"}
          /\ batch_start_page = gaps[Len(gaps)].batch
          /\ pc = "advance" => page + 1 <= max_pages /\ i + 1 < results_interval
          /\ pc = "for" => page <= max_pages /\ i < results_interval

\* a run of three fetches: the second after the delay, in the batch of the first,
\* the third after the report and the pause, in the next batch
C13_Witness ==
    /\ pc = "done" /\ Len(gaps) = 3
    /\ gaps[2].batch = gaps[1].batch /\ gaps[2].before = {"delay"}
    /\ gaps[3].batch # gaps[2].batch /\ gaps[3].before = {"report", "pause"}

\* C15: the inter-batch pause is performed only between two batches: after a
\* pause the loop goes on to the fetch of the next page, and the run never
\* returns with a pause as its last throttling step, whether the last batch ended
\* on a terminal page or on page max_pages.
C15_PauseOnlyBetweenBatches ==
    /\ ("pause" \in since /\ pc = "while") => LoopCondition
    /\ pc = "done" => "pause" \notin since

-----------------------------------------------------------------------------
(* Properties of extract_games_from_store_page *)

\* the candidate elements of the markup given to the call
RowsOfCall ==
    IF ~IsSome(ex_html) \/ The(ex_html).blank \/ The(ex_html).site_error THEN <<>>
    ELSE SelectGameRows(The(ex_html))

RealSources == {"structured", "text", "api"}

\* C6: every record emitted has discount_percent in 1..100.
C6_DiscountInRange ==
    \A k \in 1..Len(ex_out) : ex_out[k].discount_percent \in 1..100

\* C7: every record emitted with a discount of 1..100 has original_price > 0 and
\* final_price > 0.
C7_PositivePrices ==
    \A k \in 1..Len(ex_out) :
        ex_out[k].discount_percent \in 1..100 =>
            ex_out[k].original_price > 0 /\ ex_out[k].final_price > 0

\* C8: every candidate whose identifier resolves and whose discount resolves to a
\* value in 1..100 gets a record, whatever its name, its prices and the lookup.
C8_RecognizedIsEmitted ==
    ex_pc = "returned" =>
        \A k \in 1..Len(RowsOfCall) :
            (IsSome(AppId(RowsOfCall[k])) /\ DiscountPercent(RowsOfCall[k]) \in 1..100)
                => /\ ex_trace[k].kind = "record"
                   /\ The(ex_trace[k].rec).id = The(AppId(RowsOfCall[k]))

\* C9: a record whose original and final price both come from source data (the
\* price elements, two price tokens of the container text, or the detail lookup)
\* has final_price <= original_price.
C9_FinalNotAboveOriginal ==
    \A k \in 1..Len(ex_trace) :
        (/\ ex_trace[k].kind = "record"
         /\ ex_trace[k].osrc \in RealSources
         /\ ex_trace[k].fsrc \in RealSources)
            => The(ex_trace[k].rec).final_price <= The(ex_trace[k].rec).original_price

\* the markup last fetched carries the site-error title
SiteErrorFetched ==
    IsSome(html_content) /\ ~The(html_content).blank /\ The(html_content).site_error

\* C11: for markup with the site-error title the extractor works through no
\* candidate (no layout detection, no field extraction, no lookup) and returns the
\* empty list, whatever result rows the markup holds; the controller then handles
\* the page as a page without records: it is the terminal page of the run.
C11_SiteErrorPageIsTerminal ==
    SiteErrorFetched =>
        /\ TraceOf(html_content) = <<>>
        /\ extract_games_from_store_page(html_content) = <<>>
        /\ pc # "extract" =>
              /\ page_results = <<>>
              /\ Len(extracted) = Len(fetched)
              /\ extracted[Len(extracted)] = <<>>
              /\ stop_page = fetched[Len(fetched)]
              /\ page = max_pages + 1
              /\ pc \in {"dedup", "new", "report", "pause", "while", "done"}
              /\ all_items = Flatten(SubSeq(extracted, 1, Len(extracted) - 1))

\* page 2 was the site-error page, with a discounted row in it, and the run
\* returned the records of page 1
C11_Witness ==
    /\ pc = "done" /\ SiteErrorFetched
    /\ SelectGameRows(The(html_content)) # <<>>
    /\ stop_page = 2 /\ max_pages = 3
    /\ Len(The(returned)) >= 2

\* the value of the first discount selector, in order, whose element's text parses
\* to a positive integer; 0 when there is none
RECURSIVE FirstPositiveFrom(_, _)
FirstPositiveFrom(discounts, k) ==
    IF k > Len(discounts) THEN 0
    ELSE IF /\ IsSome(discounts[k])
            /\ IntParses(StripSigns(The(discounts[k])))
            /\ IntValue(StripSigns(The(discounts[k]))) > 0
         THEN IntValue(StripSigns(The(discounts[k])))
    ELSE FirstPositiveFrom(discounts, k + 1)

\* C14: a candidate whose identifier resolves is discarded for lack of discount
\* only if no discount selector yields a positive integer; when an earlier
\* selector's element reads 0 or does not parse and a later one reads N > 0, the
\* candidate is kept, and (the lookup aside) its record carries discount_percent N.
C14_LaterSelectorDecides ==
    ex_pc = "returned" =>
        \A k \in 1..Len(RowsOfCall) :
            IsSome(AppId(RowsOfCall[k])) =>
                /\ ex_trace[k].kind = "no_discount" =>
                       FirstPositiveFrom(RowsOfCall[k].discounts, 1) = 0
                /\ (ex_trace[k].kind = "record" /\ RowsOfCall[k].details = None) =>
                       The(ex_trace[k].rec).discount_percent =
                           FirstPositiveFrom(RowsOfCall[k].discounts, 1)

-----------------------------------------------------------------------------
(* Properties of sort_items_by_discount *)

CarriesDiscount(item) == "discount_percent" \in DOMAIN item
Occurrences(s, x) == Cardinality({k \in 1..Len(s) : s[k] = x})
WithDiscount(s, d) == SelectSeq(s, LAMBDA item : CarriesDiscount(item) /\ item.discount_percent = d)

\* C10: the result is a permutation of the input items that carry a
\* discount_percent, non-increasing in discount_percent, and items of equal
\* discount_percent keep their input order.
C10_StableDescendingSort ==
    sort_pc \in {"sorted", "shown"} =>
        /\ \A k \in 1..Len(sort_out) : CarriesDiscount(sort_out[k])
        /\ \A x \in Range(sort_in) \cup Range(sort_out) :
              Occurrences(sort_out, x) = IF CarriesDiscount(x) THEN Occurrences(sort_in, x) ELSE 0
        /\ \A k \in 1..(Len(sort_out) - 1) :
              sort_out[k].discount_percent >= sort_out[k + 1].discount_percent
        /\ \A d \in {sort_out[k].discount_percent : k \in 1..Len(sort_out)} :
              WithDiscount(sort_out, d) = WithDiscount(sort_in, d)

\* a list of three records whose order the sort changed, two of them different
\* records of equal discount
C10_Witness ==
    /\ sort_pc = "sorted"
    /\ Len(sort_out) = 3
    /\ sort_out # SelectSeq(sort_in, CarriesDiscount)
    /\ \E j, k \in 1..3 : j < k /\ sort_out[j].discount_percent = sort_out[k].discount_percent
                          /\ sort_out[j] # sort_out[k]


====
